---- MODULE Spec2Model ----
(***************************************************************************)
(* Model of index.py: the GitHub profile README generator.                 *)
(*                                                                         *)
(* Strings are sequences of one-character strings, so that the string      *)
(* operations of the code (endswith, startswith, split, lstrip) are        *)
(* computed rather than assumed.  Python's None is the value None below.   *)
(***************************************************************************)
EXTENDS Integers, Sequences, FiniteSets, TLC

\* ------------------------------------------------------------------------
\* Strings
\* ------------------------------------------------------------------------

None == <<"None">>

Truthy(v) == v # None /\ v # <<>>

Min(a, b) == IF a <= b THEN a ELSE b

Max(a, b) == IF a >= b THEN a ELSE b

DotGit == <<".", "g", "i", "t">>

GitAt == <<"g", "i", "t", "@">>

EndsWith(s, suf) ==
    /\ Len(s) >= Len(suf)
    /\ SubSeq(s, Len(s) - Len(suf) + 1, Len(s)) = suf

StartsWith(s, pre) ==
    /\ Len(s) >= Len(pre)
    /\ SubSeq(s, 1, Len(pre)) = pre

\* Position of the first occurrence of character c in s, 0 when absent.
Find(s, c) ==
    IF \E i \in 1..Len(s) : s[i] = c
    THEN CHOOSE i \in 1..Len(s) : s[i] = c /\ \A j \in 1..(i - 1) : s[j] # c
    ELSE 0

\* str.split(c): the list of the pieces between the occurrences of c.
RECURSIVE Split(_, _)
Split(s, c) ==
    LET i == Find(s, c)
    IN  IF i = 0 THEN <<s>>
        ELSE <<SubSeq(s, 1, i - 1)>> \o Split(SubSeq(s, i + 1, Len(s)), c)

\* str.split(c, 1): at most one cut, at the first occurrence of c.
SplitOnce(s, c) ==
    LET i == Find(s, c)
    IN  IF i = 0 THEN <<s>>
        ELSE <<SubSeq(s, 1, i - 1), SubSeq(s, i + 1, Len(s))>>

\* str.lstrip(c)
RECURSIVE LStrip(_, _)
LStrip(s, c) ==
    IF s # <<>> /\ s[1] = c THEN LStrip(Tail(s), c) ELSE s

Letters == {"g", "i", "t", "h", "p", "s", "o", "r"}

SchemeChars == Letters \cup {"."}

\* urlparse(url).path for URLs without '?', '#', ';' or brackets: a scheme is
\* cut off when the text before the first ':' is a letter followed by scheme
\* characters; a netloc is cut off when what remains starts with "//" and
\* runs to the next '/'.
UrlPath(url) ==
    LET i == Find(url, ":")
        hasScheme == /\ i > 1
                     /\ url[1] \in Letters
                     /\ \A j \in 1..(i - 1) : url[j] \in SchemeChars
        rest == IF hasScheme THEN SubSeq(url, i + 1, Len(url)) ELSE url
        afterSlashes == SubSeq(rest, 3, Len(rest))
        k == Find(afterSlashes, "/")
    IN  IF StartsWith(rest, <<"/", "/">>)
        THEN IF k = 0 THEN <<>> ELSE SubSeq(afterSlashes, k, Len(afterSlashes))
        ELSE rest

\* ------------------------------------------------------------------------
\* parse_owner_repo_from_clone_url
\* ------------------------------------------------------------------------

Returned(o, r) == [raised |-> FALSE, owner |-> o, repo |-> r]

Raised == [raised |-> TRUE, owner |-> None, repo |-> None]

\* The git@ branch; split(":", 1)[1] on a string without ':' raises
\* IndexError.
SshPath(url) ==
    LET cut == SplitOnce(url, ":")
    IN  IF Len(cut) < 2 THEN Raised
        ELSE LET parts == Split(cut[2], "/")
             IN  IF Len(parts) >= 2 THEN Returned(parts[1], parts[2])
                 ELSE Returned(None, None)

parse_owner_repo_from_clone_url(clone_url) ==
    LET url == IF EndsWith(clone_url, DotGit)
               THEN SubSeq(clone_url, 1, Len(clone_url) - 4)
               ELSE clone_url
    IN  IF StartsWith(url, GitAt)
        THEN SshPath(url)
        ELSE LET parts == Split(LStrip(UrlPath(url), "/"), "/")
             IN  IF Len(parts) >= 2 THEN Returned(parts[1], parts[2])
                 ELSE Returned(None, None)

\* Inputs of the parser: a prefix, a body of at most MaxBody characters and
\* an optional ".git".
MaxBody == 4

BodyChars == {":", "/", "o"}

RECURSIVE StringsUpTo(_, _)
StringsUpTo(chars, n) ==
    IF n = 0 THEN {<<>>}
    ELSE LET shorter == StringsUpTo(chars, n - 1)
         IN  shorter \cup {Append(s, c) : s \in shorter, c \in chars}

HttpsHost == <<"h", "t", "t", "p", "s", ":", "/", "/", "h">>

Prefixes == {GitAt \o <<"h">>, HttpsHost, <<>>}

ParseInputs ==
    {pre \o body \o suf : pre \in Prefixes,
                          body \in StringsUpTo(BodyChars, MaxBody),
                          suf \in {<<>>, DotGit}}

\* ------------------------------------------------------------------------
\* Configuration and data from the network
\* ------------------------------------------------------------------------

per_page == 100

MaxPages == 2

MaxWorkers == 2

MaxCap == 2

\* dict.get(key, default) on a dict held as a set of <<key, value>> pairs
DictGet(d, k, default) ==
    IF \E kv \in d : kv[1] = k THEN (CHOOSE kv \in d : kv[1] = k)[2] ELSE default

\* What the argument parser accepts: --max-repos is absent (has_max FALSE)
\* or any integer, --workers is any integer.
ArgsSet ==
    [no_loc : BOOLEAN, has_max : {TRUE}, max_repos : -1..MaxCap, workers : 0..MaxWorkers]
    \cup [no_loc : BOOLEAN, has_max : {FALSE}, max_repos : {0}, workers : 0..MaxWorkers]

\* Outcomes of one HTTP request: status 200 with a JSON body, another
\* status, status 200 with a body that is not JSON, no response at all.
HttpOutcomes == {"ok", "status", "malformed", "neterr"}

GoodUrl == HttpsHost \o <<"/", "o", "/", "r">> \o DotGit

OneSegmentUrl == HttpsHost \o <<"/", "o">>

SshNoColonUrl == GitAt \o <<"h">>

Repo(private, stars, url) ==
    [private |-> private, stargazers_count |-> stars, clone_url |-> url]

NoUrlRepo == Repo(FALSE, 0, None)

HeadRepos ==
    {Repo(FALSE, 3, GoodUrl), Repo(TRUE, 5, OneSegmentUrl),
     Repo(FALSE, 0, SshNoColonUrl)}

\* The bodies a listing request may return for page p: n records, the first
\* any of HeadRepos, the others without a clone URL.  A page never holds more than per_page records, and the
\* account's repositories end by page MaxPages.
PageSizes(p) ==
    {0, per_page - 1} \cup (IF p < MaxPages THEN {per_page} ELSE {})

PageBodies(p) ==
    {<<>>} \cup
    {[i \in 1..n |-> IF i = 1 THEN h ELSE NoUrlRepo] :
        n \in PageSizes(p) \ {0}, h \in HeadRepos}

UserBodies == {{<<"followers", 7>>}}

ContributionTotals == {12}

\* ------------------------------------------------------------------------
\* Output of the git queries
\* ------------------------------------------------------------------------

Digits == {"0", "1", "2", "3", "4", "5", "6", "7", "8", "9"}

DigitValue(c) ==
    CASE c = "0" -> 0 [] c = "1" -> 1 [] c = "2" -> 2 [] c = "3" -> 3
      [] c = "4" -> 4 [] c = "5" -> 5 [] c = "6" -> 6 [] c = "7" -> 7
      [] c = "8" -> 8 [] c = "9" -> 9

\* str.isdigit()
IsDigit(s) == s # <<>> /\ \A i \in 1..Len(s) : s[i] \in Digits

\* int(s) of a digit string
RECURSIVE ParseInt(_)
ParseInt(s) ==
    IF s = <<>> THEN 0
    ELSE 10 * ParseInt(SubSeq(s, 1, Len(s) - 1)) + DigitValue(s[Len(s)])

\* int(r1.stdout.strip() or 0)
CommitCount(stdout) == IF stdout = <<>> THEN 0 ELSE ParseInt(stdout)

\* The loop over r2.stdout.splitlines(): [added, removed]
RECURSIVE NumstatTotals(_)
NumstatTotals(lines) ==
    IF lines = <<>> THEN [added |-> 0, removed |-> 0]
    ELSE LET parts == Split(Head(lines), "\t")
             rest == NumstatTotals(Tail(lines))
         IN  IF Len(parts) >= 2 /\ IsDigit(parts[1]) /\ IsDigit(parts[2])
             THEN [added |-> ParseInt(parts[1]) + rest.added,
                   removed |-> ParseInt(parts[2]) + rest.removed]
             ELSE rest

\* stdout of rev-list --count, stripped; empty when the working copy is not
\* a repository.
RevListOutputs(cloned) == IF cloned THEN {<<"0">>, <<"2">>} ELSE {<<>>}

NumstatOutputs(cloned) ==
    IF cloned
    THEN {<<>>, << <<"3", "\t", "1", "0", "\t", "g">>, <<"-", "\t", "-", "\t", "b">> >>}
    ELSE {<<>>}

\* get_commit_count_api: the responses to the one-commit page request.
\* link_last is the page number of the Link header's rel="last" entry, 0
\* when there is no such header; data_len is the length of the JSON body,
\* -1 when the body is not JSON.
ApiResponses ==
    {[kind |-> "neterr", link_last |-> 0, data_len |-> 0],
     [kind |-> "status", link_last |-> 0, data_len |-> 0],
     [kind |-> "ok", link_last |-> 7, data_len |-> 1],
     [kind |-> "ok", link_last |-> 0, data_len |-> 1],
     [kind |-> "ok", link_last |-> 0, data_len |-> 0],
     [kind |-> "ok", link_last |-> 0, data_len |-> -1]}

get_commit_count_api(resp) ==
    IF resp.kind = "ok"
    THEN IF resp.link_last > 0 THEN resp.link_last
         ELSE IF resp.data_len >= 0 THEN resp.data_len ELSE 0
    ELSE 0

\* ------------------------------------------------------------------------
\* State
\* ------------------------------------------------------------------------

VARIABLES
    token,          \* GITHUB_TOKEN is set
    args,           \* the parsed command line
    pc,             \* where main is
    error,          \* the exception that ended main, "none" when there is none
    page,           \* get_all_repos: the page to request next
    repos,          \* get_all_repos: the records accumulated
    responses,      \* get_all_repos: what each requests.get of this call gave
    requests,       \* every HTTP request issued: [url, auth]
    user_data,      \* get_basic_stats: the profile body
    stats,          \* what get_basic_stats returned, without the URLs
    repo_urls,      \* the clone URLs get_basic_stats returned
    contributions,
    tasks,          \* the futures, in submission order
    held,           \* the temporary directories that exist
    totals,         \* total_commits, total_added, total_removed
    returned_sum,   \* history: the sum of the tallies the tasks have returned
    readme          \* <<>> until README.md is written, then <<its values>>

VARIABLES parse_pc, parse_in, parse_out

mainvars ==
    <<token, args, pc, error, page, repos, responses, requests, user_data,
      stats, repo_urls, contributions, tasks, held, totals, returned_sum,
      readme>>

parsevars == <<parse_pc, parse_in, parse_out>>

vars == <<mainvars, parsevars>>

ZeroStats ==
    [total_repos |-> 0, public_repos |-> 0, private_repos |-> 0,
     followers |-> 0, stars |-> 0]

ZeroTally == [commits |-> 0, added |-> 0, removed |-> 0]

MainStart ==
    /\ error = "none"
    /\ page = 1
    /\ repos = <<>>
    /\ responses = <<>>
    /\ requests = {}
    /\ user_data = {}
    /\ stats = ZeroStats
    /\ repo_urls = <<>>
    /\ contributions = 0
    /\ tasks = <<>>
    /\ held = {}
    /\ totals = ZeroTally
    /\ returned_sum = ZeroTally
    /\ readme = <<>>

Init ==
    /\ token \in BOOLEAN
    /\ args \in ArgsSet
    /\ pc = "get_user"
    /\ MainStart
    /\ parse_pc = "idle"
    /\ parse_in = <<>>
    /\ parse_out = Returned(None, None)

\* ------------------------------------------------------------------------
\* get_basic_stats, get_all_repos, get_yearly_contributions
\* ------------------------------------------------------------------------

Request(url, auth) == [url |-> url, auth |-> auth]

UserUrl(tok) == IF tok THEN "/user" ELSE "/users/{account}"

repos_url_authenticated(tok) == "/user/repos"

ReposUrl(tok) == IF tok THEN "/user/repos" ELSE "/users/{account}/repos"

GraphqlUrl == "/graphql"

CommitsUrl == "/repos/{owner}/{repo}/commits"

\* An exception nobody catches: main ends.
Crash(kind) ==
    /\ pc' = "crashed"
    /\ error' = kind

\* get_basic_stats, the profile request
GetUser ==
    /\ pc = "get_user"
    /\ requests' = requests \cup {Request(UserUrl(token), token)}
    /\ \E outcome \in HttpOutcomes :
        \/ /\ outcome = "ok"
           /\ \E body \in UserBodies : user_data' = body
           /\ pc' = "get_all_repos"
           /\ UNCHANGED error
        \/ /\ outcome = "status"
           /\ user_data' = {}
           /\ pc' = "get_all_repos"
           /\ UNCHANGED error
        \/ /\ outcome = "malformed"
           /\ Crash("JSONDecodeError")
           /\ UNCHANGED user_data
        \/ /\ outcome = "neterr"
           /\ Crash("ConnectionError")
           /\ UNCHANGED user_data
    /\ UNCHANGED <<token, args, page, repos, responses, stats, repo_urls,
                   contributions, tasks, held, totals, returned_sum, readme,
                   parsevars>>

Response(p, kind, data) == [page |-> p, kind |-> kind, data |-> data]

short_page_le(data) == Len(data) <= per_page

\* len(data) < per_page
ShortPage(data) == Len(data) < per_page

status_raises == Crash("HTTPError") /\ UNCHANGED <<repos, page>>

\* if r.status_code != 200: the warning is printed and the loop is left
StatusBreak ==
    /\ pc' = "repos_returned"
    /\ UNCHANGED <<repos, page, error>>

\* One iteration of the loop of get_all_repos
FetchPage ==
    /\ pc = "get_all_repos"
    /\ requests' = requests \cup {Request(ReposUrl(token), token)}
    /\ \E outcome \in HttpOutcomes :
        \/ /\ outcome = "ok"
           /\ \E data \in PageBodies(page) :
                /\ responses' = Append(responses, Response(page, "ok", data))
                /\ IF data = <<>>
                   THEN /\ pc' = "repos_returned"
                        /\ UNCHANGED <<repos, page>>
                   ELSE /\ repos' = repos \o data
                        /\ IF ShortPage(data)
                           THEN /\ pc' = "repos_returned"
                                /\ UNCHANGED page
                           ELSE /\ pc' = "get_all_repos"
                                /\ page' = page + 1
           /\ UNCHANGED error
        \/ /\ outcome = "status"
           /\ responses' = Append(responses, Response(page, "status", <<>>))
           /\ StatusBreak
        \/ /\ outcome = "malformed"
           /\ responses' = Append(responses, Response(page, "malformed", <<>>))
           /\ Crash("JSONDecodeError")
           /\ UNCHANGED <<repos, page>>
        \/ /\ outcome = "neterr"
           /\ responses' = Append(responses, Response(page, "neterr", <<>>))
           /\ Crash("ConnectionError")
           /\ UNCHANGED <<repos, page>>
    /\ UNCHANGED <<token, args, user_data, stats, repo_urls, contributions,
                   tasks, held, totals, returned_sum, readme, parsevars>>

\* sum(r.get("stargazers_count", 0) for r in repos), over rs[lo..hi]
RECURSIVE SumStarsIn(_, _, _)
SumStarsIn(rs, lo, hi) ==
    IF lo > hi THEN 0
    ELSE IF lo = hi THEN rs[lo].stargazers_count
    ELSE LET mid == (lo + hi) \div 2
         IN  SumStarsIn(rs, lo, mid) + SumStarsIn(rs, mid + 1, hi)

SumStars(rs) == SumStarsIn(rs, 1, Len(rs))

CountPrivate(rs) == Cardinality({i \in 1..Len(rs) : rs[i].private})

HasCloneUrl(r) == Truthy(r.clone_url)

\* [r.get("clone_url") for r in repos if r.get("clone_url")]
CloneUrls(rs) ==
    LET kept == SelectSeq(rs, HasCloneUrl)
    IN  [i \in 1..Len(kept) |-> kept[i].clone_url]

\* get_basic_stats after get_all_repos has returned; the locals of
\* get_all_repos are gone once it has.
BasicStats ==
    /\ pc = "repos_returned"
    /\ LET private_repos == CountPrivate(repos)
           public_repos == Len(repos) - private_repos
       IN  stats' = [total_repos |-> public_repos + private_repos,
                     public_repos |-> public_repos,
                     private_repos |-> private_repos,
                     followers |-> DictGet(user_data, "followers", 0),
                     stars |-> SumStars(repos)]
    /\ repo_urls' = CloneUrls(repos)
    /\ repos' = <<>>
    /\ responses' = <<>>
    /\ page' = 1
    /\ user_data' = {}
    /\ pc' = "contributions"
    /\ UNCHANGED <<token, args, error, requests, contributions, tasks, held,
                   totals, returned_sum, readme, parsevars>>

get_yearly_contributions ==
    /\ pc = "contributions"
    /\ IF ~token
       THEN /\ contributions' = 0
            /\ UNCHANGED requests
       ELSE /\ requests' = requests \cup {Request(GraphqlUrl, TRUE)}
            /\ \E outcome \in HttpOutcomes :
                 IF outcome = "ok"
                 THEN \E n \in ContributionTotals : contributions' = n
                 ELSE contributions' = 0
    /\ pc' = "fan_out"
    /\ UNCHANGED <<token, args, error, page, repos, responses, user_data,
                   stats, repo_urls, tasks, held, totals, returned_sum, readme,
                   parsevars>>

\* ------------------------------------------------------------------------
\* analyze_repo, run by the workers of the pool
\* ------------------------------------------------------------------------

\* A future and the locals of its analyze_repo call.  local_commits,
\* local_added and local_removed record what the git queries had given when
\* the with block was left; api_called records that the fallback request
\* was issued.
NewTask(url) ==
    [url |-> url, pc |-> "queued", owner |-> None, repo |-> None, td |-> 0,
     cloned |-> FALSE, commits |-> 0, added |-> 0, removed |-> 0,
     local_commits |-> 0, local_added |-> 0, local_removed |-> 0,
     api_called |-> FALSE, collected |-> FALSE]

RunningPcs == {"clone", "queries", "api"}

FinishedPcs == {"returned", "raised"}

Running == {i \in 1..Len(tasks) : tasks[i].pc \in RunningPcs}

PoolOpen == pc \in {"collect", "unwind"}

\* tempfile.TemporaryDirectory(): a directory of a name that does not exist
mkdtemp(fs) == CHOOSE d \in 1..(Cardinality(fs) + 1) :
                  d \notin fs /\ \A e \in 1..(d - 1) : e \in fs

\* leaving the with block
cleanup_skipped(fs, td) == fs

cleanup(fs, td) == fs \ {td}

\* if commits == 0 and owner and repo
fallback_ignores_owner(t) == t.commits = 0

NeedsFallback(t) == t.commits = 0 /\ Truthy(t.owner) /\ Truthy(t.repo)

\* returned_sum once the tasks have moved from ts to us: the tally of every
\* task that has returned in the step is added.
Credit(ts, us) ==
    LET new == {i \in 1..Len(us) : us[i].pc = "returned" /\ ts[i].pc # "returned"}
    IN  IF new = {} THEN returned_sum
        ELSE LET i == CHOOSE j \in new : TRUE
             IN  [commits |-> returned_sum.commits + us[i].commits,
                  added |-> returned_sum.added + us[i].added,
                  removed |-> returned_sum.removed + us[i].removed]

\* The with block is left: the directory is released, then the fallback is
\* decided.
AfterWith(t) ==
    LET u == [t EXCEPT !.td = 0, !.cloned = FALSE,
                       !.local_commits = t.commits,
                       !.local_added = t.added,
                       !.local_removed = t.removed]
    IN  [u EXCEPT !.pc = IF NeedsFallback(u) THEN "api" ELSE "returned"]

\* A free worker takes the oldest queued task: parse the URL, make the
\* directory.
TaskStart(i) ==
    /\ PoolOpen
    /\ i \in 1..Len(tasks)
    /\ tasks[i].pc = "queued"
    /\ \A j \in 1..(i - 1) : tasks[j].pc # "queued"
    /\ Cardinality(Running) < args.workers
    /\ LET parsed == parse_owner_repo_from_clone_url(tasks[i].url)
       IN  IF parsed.raised
           THEN /\ tasks' = [tasks EXCEPT ![i].pc = "raised"]
                /\ UNCHANGED held
           ELSE LET td == mkdtemp(held)
                IN  /\ tasks' = [tasks EXCEPT ![i].pc = "clone",
                                              ![i].owner = parsed.owner,
                                              ![i].repo = parsed.repo,
                                              ![i].td = td]
                    /\ held' = held \cup {td}
    /\ UNCHANGED <<token, args, pc, error, page, repos, responses, requests,
                   user_data, stats, repo_urls, contributions, totals, returned_sum,
                   readme, parsevars>>

\* What git clone can do with url: succeed (only where the URL names a
\* repository), exit with an error, or not run at all (OSError).
CloneOutcomes(url) ==
    (IF url = GoodUrl THEN {"ok"} ELSE {}) \cup {"failed", "oserror"}

\* subprocess.run(clone_cmd, check=False); an OSError is caught by the outer
\* except, after the with block has been left.
TaskClone(i) ==
    /\ PoolOpen
    /\ i \in 1..Len(tasks)
    /\ tasks[i].pc = "clone"
    /\ \E outcome \in CloneOutcomes(tasks[i].url) :
        IF outcome = "oserror"
        THEN /\ tasks' = [tasks EXCEPT ![i] = AfterWith(tasks[i])]
             /\ held' = cleanup(held, tasks[i].td)
        ELSE /\ tasks' = [tasks EXCEPT ![i].pc = "queries",
                                       ![i].cloned = (outcome = "ok")]
             /\ UNCHANGED held
    /\ returned_sum' = Credit(tasks, tasks')
    /\ UNCHANGED <<token, args, pc, error, page, repos, responses, requests,
                   user_data, stats, repo_urls, contributions, totals, readme,
                   parsevars>>

\* [commits, added, removed] that the two git queries can leave: rev-list
\* gives a count or raises (commits = 0), log --numstat gives lines to add
\* up or raises (nothing added).
QueryResults(cloned) ==
    {[commits |-> c, added |-> sum.added, removed |-> sum.removed] :
        c \in {CommitCount(out) : out \in RevListOutputs(cloned)} \cup {0},
        sum \in {NumstatTotals(lines) : lines \in NumstatOutputs(cloned)}
                \cup {[added |-> 0, removed |-> 0]}}

\* The two git queries, run one after the other in the task's own
\* directory; the with block ends after them.
TaskQueries(i) ==
    /\ PoolOpen
    /\ i \in 1..Len(tasks)
    /\ tasks[i].pc = "queries"
    /\ \E res \in QueryResults(tasks[i].cloned) :
        tasks' = [tasks EXCEPT ![i] =
                    AfterWith([tasks[i] EXCEPT !.commits = res.commits,
                                               !.added = res.added,
                                               !.removed = res.removed])]
    /\ held' = cleanup(held, tasks[i].td)
    /\ returned_sum' = Credit(tasks, tasks')
    /\ UNCHANGED <<token, args, pc, error, page, repos, responses, requests,
                   user_data, stats, repo_urls, contributions, totals, readme,
                   parsevars>>

\* commits = get_commit_count_api(owner, repo, username)
TaskApi(i) ==
    /\ PoolOpen
    /\ i \in 1..Len(tasks)
    /\ tasks[i].pc = "api"
    /\ requests' = requests \cup {Request(CommitsUrl, token)}
    /\ \E resp \in ApiResponses :
        tasks' = [tasks EXCEPT ![i].pc = "returned",
                               ![i].api_called = TRUE,
                               ![i].commits = get_commit_count_api(resp)]
    /\ returned_sum' = Credit(tasks, tasks')
    /\ UNCHANGED <<token, args, pc, error, page, repos, responses, user_data,
                   stats, repo_urls, contributions, held, totals, readme,
                   parsevars>>

\* ------------------------------------------------------------------------
\* main
\* ------------------------------------------------------------------------

\* repo_urls[:n]
Slice(urls, n) ==
    IF n >= 0 THEN SubSeq(urls, 1, Min(n, Len(urls)))
    ELSE SubSeq(urls, 1, Max(Len(urls) + n, 0))

\* repo_urls[:args.max_repos] if args.max_repos else repo_urls
to_process(a, urls) ==
    IF a.has_max /\ a.max_repos # 0 THEN Slice(urls, a.max_repos) ELSE urls

\* if not args.no_loc and repo_urls
skip_ignores_no_loc(a, urls) == urls = <<>>

SkipAnalysis(a, urls) == a.no_loc \/ urls = <<>>

\* The pool is made and every URL of to_process is submitted;
\* ThreadPoolExecutor raises ValueError for max_workers <= 0.
Submit ==
    /\ pc = "fan_out"
    /\ IF SkipAnalysis(args, repo_urls)
       THEN /\ pc' = "render"
            /\ UNCHANGED <<tasks, error>>
       ELSE IF args.workers <= 0
            THEN /\ Crash("ValueError")
                 /\ UNCHANGED tasks
            ELSE /\ LET urls == to_process(args, repo_urls)
                    IN  tasks' = [i \in 1..Len(urls) |-> NewTask(urls[i])]
                 /\ pc' = "collect"
                 /\ UNCHANGED error
    /\ UNCHANGED <<token, args, page, repos, responses, requests, user_data,
                   stats, repo_urls, contributions, held, totals, returned_sum,
                   readme, parsevars>>

add_twice(tot, t) ==
    [commits |-> tot.commits + 2 * t.commits,
     added |-> tot.added + 2 * t.added,
     removed |-> tot.removed + 2 * t.removed]

AddTally(tot, t) ==
    [commits |-> tot.commits + t.commits,
     added |-> tot.added + t.added,
     removed |-> tot.removed + t.removed]

\* A future whose result has been taken: nothing reads it again.
Collected(t) == [NewTask(t.url) EXCEPT !.pc = "returned", !.collected = TRUE]

\* as_completed hands over a finished future; fut.result() returns its
\* tally or raises what the task raised.
Collect(i) ==
    /\ pc = "collect"
    /\ i \in 1..Len(tasks)
    /\ tasks[i].pc \in FinishedPcs
    /\ ~tasks[i].collected
    /\ IF tasks[i].pc = "raised"
       THEN /\ pc' = "unwind"
            /\ error' = "IndexError"
            /\ UNCHANGED <<tasks, totals, returned_sum>>
       ELSE /\ totals' = AddTally(totals, tasks[i])
            /\ tasks' = [tasks EXCEPT ![i] = Collected(tasks[i])]
            /\ UNCHANGED <<pc, error, returned_sum>>
    /\ UNCHANGED <<token, args, page, repos, responses, requests, user_data,
                   stats, repo_urls, contributions, held, readme, parsevars>>

\* The loop over as_completed is over and the with block of the pool is left.
ExitPool ==
    /\ pc = "collect"
    /\ \A i \in 1..Len(tasks) : tasks[i].collected
    /\ pc' = "render"
    /\ UNCHANGED <<token, args, error, page, repos, responses, requests,
                   user_data, stats, repo_urls, contributions, tasks, held,
                   totals, returned_sum, readme, parsevars>>

\* The exception leaves the with block of the pool, whose exit waits for
\* every task, and then main.
Unwind ==
    /\ pc = "unwind"
    /\ \A i \in 1..Len(tasks) : tasks[i].pc \in FinishedPcs
    /\ pc' = "crashed"
    /\ UNCHANGED <<token, args, error, page, repos, responses, requests,
                   user_data, stats, repo_urls, contributions, tasks, held,
                   totals, returned_sum, readme, parsevars>>

build_readme(st, contrib, tot) ==
    [total_repos |-> st.total_repos, public_repos |-> st.public_repos,
     private_repos |-> st.private_repos, stars |-> st.stars,
     followers |-> st.followers, contributions |-> contrib,
     total_commits |-> tot.commits, loc |-> tot.added - tot.removed,
     total_added |-> tot.added, total_removed |-> tot.removed]

WriteReadme ==
    /\ pc = "render"
    /\ readme' = <<build_readme(stats, contributions, totals)>>
    /\ pc' = "done"
    /\ UNCHANGED <<token, args, error, page, repos, responses, requests,
                   user_data, stats, repo_urls, contributions, tasks, held,
                   totals, returned_sum, parsevars>>

Next ==
    \/ GetUser
    \/ FetchPage
    \/ BasicStats
    \/ get_yearly_contributions
    \/ Submit
    \/ \E i \in 1..Len(tasks) : TaskStart(i)
    \/ \E i \in 1..Len(tasks) : TaskClone(i)
    \/ \E i \in 1..Len(tasks) : TaskQueries(i)
    \/ \E i \in 1..Len(tasks) : TaskApi(i)
    \/ \E i \in 1..Len(tasks) : Collect(i)
    \/ ExitPool
    \/ Unwind
    \/ WriteReadme

Spec == Init /\ [][Next]_vars

\* ------------------------------------------------------------------------
\* The parser on its own
\* ------------------------------------------------------------------------

InitParse ==
    /\ token = FALSE
    /\ args = [no_loc |-> TRUE, has_max |-> FALSE, max_repos |-> 0, workers |-> 0]
    /\ pc = "idle"
    /\ MainStart
    /\ parse_pc = "call"
    /\ parse_in \in ParseInputs
    /\ parse_out = Returned(None, None)

ParseStep ==
    /\ parse_pc = "call"
    /\ parse_pc' = "done"
    /\ parse_out' = parse_owner_repo_from_clone_url(parse_in)
    /\ UNCHANGED <<parse_in, mainvars>>

SpecParse == InitParse /\ [][ParseStep]_vars

\* ------------------------------------------------------------------------
\* Properties
\* ------------------------------------------------------------------------

TaskIds == 1..Len(tasks)

Last(seq) == seq[Len(seq)]

AllPagesOk == \A k \in 1..Len(responses) : responses[k].kind = "ok"

\* The bodies of responses 1..n, one after the other
RECURSIVE PagesConcat(_)
PagesConcat(n) ==
    IF n = 0 THEN <<>> ELSE PagesConcat(n - 1) \o responses[n].data

RECURSIVE PagesTotal(_)
PagesTotal(n) ==
    IF n = 0 THEN 0 ELSE PagesTotal(n - 1) + Len(responses[n].data)

\* The field-wise sum of the tallies of the tasks in ids
RECURSIVE TallySum(_)
TallySum(ids) ==
    IF ids = {} THEN ZeroTally
    ELSE LET i == CHOOSE j \in ids : TRUE
             rest == TallySum(ids \ {i})
         IN  [commits |-> rest.commits + tasks[i].commits,
              added |-> rest.added + tasks[i].added,
              removed |-> rest.removed + tasks[i].removed]

\* C1: whatever the data sources answer (any status, a malformed body, a
\* network error, failing clones and git queries), main ends by writing
\* README.md and never with an unhandled error.  (Stated for runs whose
\* --workers value the pool accepts.)
C1_NoUnhandledError == args.workers > 0 => error = "none"

\* C2: when every page request succeeds, the records accumulated are the
\* pages fetched, concatenated in page order from page 1, and their number
\* is the sum of the page sizes; page k+1 is requested only after a page k
\* of exactly per_page records, and the loop stops at the first page that
\* is shorter or empty.
C2_Pagination ==
    (pc \in {"get_all_repos", "repos_returned"} /\ AllPagesOk) =>
        /\ \A k \in 1..Len(responses) : responses[k].page = k
        /\ repos = PagesConcat(Len(responses))
        /\ Len(repos) = PagesTotal(Len(responses))
        /\ \A k \in 1..(Len(responses) - 1) : Len(responses[k].data) = per_page
        /\ pc = "get_all_repos" =>
              /\ page = Len(responses) + 1
              /\ responses # <<>> => Len(Last(responses).data) = per_page
        /\ pc = "repos_returned" => Len(Last(responses).data) < per_page

\* A full first page and a short second one have been fetched.
C2_TwoPagesFetched ==
    /\ pc = "repos_returned"
    /\ AllPagesOk
    /\ Len(responses) = 2
    /\ Len(repos) = per_page + per_page - 1

\* C3: when the request for page k comes back with a non-success status,
\* get_all_repos returns at once, with no retry and no later request, what
\* pages 1..k-1 gave (nothing when k = 1), and main goes on.
C3_FailedPageTruncates ==
    (responses # <<>> /\ Last(responses).kind = "status") =>
        LET k == Len(responses)
        IN  /\ pc = "repos_returned"
            /\ error = "none"
            /\ \A j \in 1..k : responses[j].page = j
            /\ \A j \in 1..(k - 1) : responses[j].kind = "ok"
            /\ repos = PagesConcat(k - 1)
            /\ k = 1 => repos = <<>>

\* Page 1 was full and the request for page 2 came back with an error status.
C3_SecondPageFailed ==
    /\ Len(responses) = 2
    /\ Last(responses).kind = "status"
    /\ Len(repos) = per_page

\* C4: with --max-repos N, at most N analyzer invocations are submitted,
\* for the first N clone URLs of the listing (all of them when there are
\* fewer).  (Stated for N >= 0.)
C4_MaxReposCaps ==
    (args.has_max /\ args.max_repos >= 0) =>
        /\ Len(tasks) <= args.max_repos
        /\ \A i \in TaskIds : tasks[i].url = repo_urls[i]

\* C5: with --no-loc nothing is ever submitted: no temporary directory, no
\* clone, no commit-count request; and the commits, lines_added and
\* lines_removed handed to the renderer are 0.
C5_NoLocSkipsAnalysis ==
    args.no_loc =>
        /\ tasks = <<>>
        /\ held = {}
        /\ \A r \in requests : r.url # CommitsUrl
        /\ totals = ZeroTally
        /\ readme # <<>> =>
              /\ readme[1].total_commits = 0
              /\ readme[1].total_added = 0
              /\ readme[1].total_removed = 0

\* README.md has been written under --no-loc although two clone URLs were
\* listed.
C5_NoLocReadmeWritten ==
    /\ args.no_loc
    /\ args.workers > 0
    /\ Len(repo_urls) = 2
    /\ readme # <<>>

\* C6: the totals are at every moment the sum of the tallies returned so
\* far less those of the tasks still waiting to be collected, so each
\* tally is added once, by the collecting loop, after its task has
\* returned; and README.md is written only when every submitted task has
\* returned and been collected, so that its numbers are the sums over all
\* submitted tasks.
C6_TotalsAreSums ==
    LET waiting == {i \in TaskIds : tasks[i].pc = "returned" /\ ~tasks[i].collected}
        pending == TallySum(waiting)
    IN  /\ totals.commits + pending.commits = returned_sum.commits
        /\ totals.added + pending.added = returned_sum.added
        /\ totals.removed + pending.removed = returned_sum.removed
        /\ \A i \in TaskIds : tasks[i].collected => tasks[i].pc = "returned"
        /\ pc \in {"render", "done"} =>
              \A i \in TaskIds : tasks[i].collected
        /\ readme # <<>> =>
              /\ readme[1].total_commits = returned_sum.commits
              /\ readme[1].total_added = returned_sum.added
              /\ readme[1].total_removed = returned_sum.removed

\* README.md has been written with the sums of two tasks' tallies: 2 local
\* commits and 7 estimated ones, 3 + 3 lines added, 10 + 10 removed.
C6_TwoTalliesRendered ==
    /\ readme # <<>>
    /\ Len(tasks) = 2
    /\ readme[1].total_commits = 9
    /\ readme[1].total_added = 6
    /\ readme[1].total_removed = 20

\* C7: without a credential the contribution count is 0 and no GraphQL
\* request is made, and the listing and profile requests go to
\* /users/{account}/repos and /users/{account} only; with a credential
\* they go to /user/repos and /user only, on every page.
C7_EndpointsFollowCredential ==
    /\ ~token =>
          /\ contributions = 0
          /\ \A r \in requests :
                r.url \in {"/users/{account}", "/users/{account}/repos", CommitsUrl}
    /\ token =>
          \A r \in requests : r.url \in {"/user", "/user/repos", GraphqlUrl, CommitsUrl}
    /\ pc # "get_user" => \E r \in requests : r.url = UserUrl(token)
    /\ (pc = "get_all_repos" /\ page > 1) =>
          \E r \in requests : r.url = ReposUrl(token)

\* Without a credential the profile and two listing pages have been
\* requested.
C7_AnonymousListing ==
    /\ ~token
    /\ pc = "fan_out"
    /\ [url |-> "/users/{account}/repos", auth |-> FALSE] \in requests
    /\ [url |-> "/users/{account}", auth |-> FALSE] \in requests
    /\ Len(repo_urls) = 2

\* C8: parse_owner_repo_from_clone_url never raises; in particular an
\* SSH-style string without a colon gives (None, None).
C8_ParseNeverRaises ==
    parse_pc = "done" =>
        /\ ~parse_out.raised
        /\ (StartsWith(parse_in, GitAt) /\ Find(parse_in, ":") = 0) =>
              (parse_out.owner = None /\ parse_out.repo = None)

\* C9: the commit-count request is made exactly when the local count is 0
\* and owner and repo were both derived; a positive local count is returned
\* as it is, with no request; after the fallback the commits are the API
\* estimate; lines_added and lines_removed are always the local values.
C9_FallbackOnlyOnZero ==
    \A i \in TaskIds :
        LET t == tasks[i]
            wanted == t.local_commits = 0 /\ Truthy(t.owner) /\ Truthy(t.repo)
        IN  /\ t.api_called => (wanted /\ t.pc = "returned")
            /\ t.pc = "api" => wanted
            /\ (t.pc = "returned" /\ ~t.collected) =>
                  /\ t.api_called <=> wanted
                  /\ t.local_commits > 0 => t.commits = t.local_commits
                  /\ t.api_called =>
                        \E resp \in ApiResponses : t.commits = get_commit_count_api(resp)
                  /\ ~t.api_called => t.commits = t.local_commits
                  /\ t.added = t.local_added
                  /\ t.removed = t.local_removed

\* A task whose clone succeeded and whose local count was 0 has returned
\* the API estimate together with its local line counts.
C9_FallbackAfterClone ==
    \E i \in TaskIds :
        /\ tasks[i].pc = "returned"
        /\ tasks[i].api_called
        /\ tasks[i].commits = 7
        /\ tasks[i].added = 3
        /\ tasks[i].removed = 10

\* C10: a temporary directory exists only while the task that made it is
\* inside its with block; no two tasks hold the same one; a task waiting
\* for the fallback request or finished holds none; none exists when
\* README.md is written.
C10_DirectoriesReleased ==
    /\ held = {tasks[i].td : i \in {j \in TaskIds : tasks[j].td # 0}}
    /\ \A i, j \in TaskIds : (i # j /\ tasks[i].td # 0) => tasks[i].td # tasks[j].td
    /\ \A i \in TaskIds :
          tasks[i].td # 0 <=> tasks[i].pc \in {"clone", "queries"}
    /\ pc \in {"render", "done", "crashed"} => held = {}

\* One task has left its directory and waits for the fallback request
\* while another still works in its own.
C10_FallbackBesideHolder ==
    \E i, j \in TaskIds :
        /\ tasks[i].pc = "api"
        /\ tasks[i].added = 3
        /\ tasks[j].pc = "queries"
        /\ tasks[j].cloned
        /\ tasks[j].td # 0

====
